---- MODULE Spec2Model ----
(***************************************************************************)
(* Model of slickdeals_hot_deals.py: the scraper that fetches the          *)
(* Slickdeals front page, keeps the cards marked hot, removes duplicate    *)
(* titles, and mails a digest.                                             *)
(*                                                                         *)
(* Text is modelled as a sequence of one-character strings, so that        *)
(* str.startswith, the `in` substring test, str.lower, str.strip and the   *)
(* regular expressions act on characters as they do in the program.        *)
(* A parsed document is a sequence of fragments; a fragment is a sequence  *)
(* of element nodes in document order, each naming its parent by index     *)
(* (0: a child of <body>).                                                 *)
(***************************************************************************)
EXTENDS Integers, Sequences, FiniteSets, TLC

\* ------------------------------------------------------------------ bounds
\* Longest page (number of top-level fragments) the site may serve.
MaxCards == 2

\* ------------------------------------------------------------- text (str)
FIRE == "U+1F525"

UpperCase == <<"A", "B", "C", "D", "E", "F", "G", "H", "I", "J", "K", "L", "M", "N", "O", "P", "Q", "R", "S", "T", "U", "V", "W", "X", "Y", "Z">>
LowerCase == <<"a", "b", "c", "d", "e", "f", "g", "h", "i", "j", "k", "l", "m", "n", "o", "p", "q", "r", "s", "t", "u", "v", "w", "x", "y", "z">>

Min(S) == CHOOSE x \in S : \A y \in S : x <= y
Max(S) == CHOOSE x \in S : \A y \in S : x >= y

\* str.lower(), one character
LowerChar(c) ==
    IF \E i \in 1..26 : UpperCase[i] = c
    THEN LowerCase[CHOOSE i \in 1..26 : UpperCase[i] = c]
    ELSE c

\* str.lower()
lower(s) == [i \in 1..Len(s) |-> LowerChar(s[i])]

\* str.startswith(p)
startswith(s, p) == Len(s) >= Len(p) /\ SubSeq(s, 1, Len(p)) = p

\* p in s  (substring test); also re.search of a literal pattern
Contains(s, p) == \E i \in 0..(Len(s) - Len(p)) : SubSeq(s, i + 1, i + Len(p)) = p

IsSpace(c) == c \in {" ", "\n", "\t"}

\* str.strip()
strip(s) ==
    LET ink == {i \in 1..Len(s) : ~IsSpace(s[i])}
    IN  IF ink = {} THEN <<>> ELSE SubSeq(s, Min(ink), Max(ink))

IsDigit(c) == c \in {"0", "1", "2", "3", "4", "5", "6", "7", "8", "9"}

\* Greedy [\d,]* from position i: the last index of the run (i - 1 when empty).
RECURSIVE DigitCommaRun(_, _)
DigitCommaRun(s, i) ==
    IF i <= Len(s) /\ (IsDigit(s[i]) \/ s[i] = ",") THEN DigitCommaRun(s, i + 1) ELSE i - 1

\* Greedy \d* from position i: the last index of the run (i - 1 when empty).
RECURSIVE DigitRun(_, _)
DigitRun(s, i) ==
    IF i <= Len(s) /\ IsDigit(s[i]) THEN DigitRun(s, i + 1) ELSE i - 1

\* re.search(r'\$[\d,]+\.?\d*', s): the leftmost match, every quantifier greedy;
\* <<>> stands for "no match" (a match is never empty).
price_search(s) ==
    LET starts == {i \in 1..Len(s) : s[i] = "$" /\ DigitCommaRun(s, i + 1) >= i + 1}
    IN  IF starts = {} THEN <<>>
        ELSE LET i == Min(starts)
                 j == DigitCommaRun(s, i + 1)
                 k == IF j + 1 <= Len(s) /\ s[j + 1] = "." THEN j + 1 ELSE j
                 m == DigitRun(s, k + 1)
             IN  SubSeq(s, i, m)

\* --------------------------------------------------- document tree (bs4)
\* An element: its tag name, class attribute (a sequence of class tokens),
\* the text directly inside it, the attributes the program reads (an absent
\* attribute and an empty one are both <<>>: the program only tests them for
\* truth), and the index of its parent in the fragment.
El(tag, class, text, up) ==
    [tag |-> tag, class |-> class, text |-> text, up |-> up,
     href |-> <<>>, src |-> <<>>, data_src |-> <<>>,
     data_lazy_src |-> <<>>, data_original |-> <<>>]

Anchor(class, text, href, up) == [El("a", class, text, up) EXCEPT !.href = href]

Img(class, src, data_src, up) ==
    [El("img", class, <<>>, up) EXCEPT !.src = src, !.data_src = data_src]

\* j lies below i in fragment f
RECURSIVE IsUnder(_, _, _)
IsUnder(f, j, i) ==
    IF j = 0 THEN FALSE
    ELSE f[j].up = i \/ IsUnder(f, f[j].up, i)

Descendants(f, i) == {j \in DOMAIN f : IsUnder(f, j, i)}

\* class_='name': some class token equals the name
ClassIs(node, name) == \E t \in DOMAIN node.class : node.class[t] = name

\* class_=re.compile('a|b|...', re.I): some class token contains one of the
\* alternatives, compared in lower case
ClassSearchI(node, alternatives) ==
    \E t \in DOMAIN node.class : \E p \in alternatives :
        Contains(lower(node.class[t]), lower(p))

\* class_=re.compile('a|b|...'): the same, case-sensitive
ClassSearch(node, alternatives) ==
    \E t \in DOMAIN node.class : \E p \in alternatives : Contains(node.class[t], p)

\* First(S): Tag.find over a set of matching node indices: the first in
\* document order, 0 for None
First(S) == IF S = {} THEN 0 ELSE Min(S)

\* Tag.get_text() (strip = FALSE) and Tag.get_text(strip=True) (strip = TRUE)
\* of node i of f: the text of the node and of everything below it, in
\* document order; with strip each piece is stripped first.
RECURSIVE TextFrom(_, _, _, _)
TextFrom(f, i, j, stripped) ==
    IF j > Len(f) THEN <<>>
    ELSE (IF j = i \/ IsUnder(f, j, i)
          THEN (IF stripped THEN strip(f[j].text) ELSE f[j].text)
          ELSE <<>>) \o TextFrom(f, i, j + 1, stripped)

get_text(f, i) == TextFrom(f, i, i, FALSE)
get_text_strip(f, i) == TextFrom(f, i, i, TRUE)

\* card.find_parent(class_=re.compile(r'dealCard')): the nearest ancestor
\* with a class token containing "dealCard", 0 for None
RECURSIVE find_parent(_, _)
find_parent(f, i) ==
    LET p == f[i].up
    IN  IF p = 0 THEN 0
        ELSE IF ClassSearch(f[p], {<<"d", "e", "a", "l", "C", "a", "r", "d">>}) THEN p
        ELSE find_parent(f, p)

\* ------------------------------------------------------ hotness (lines 53-77)
\* The fragment the card is classified on: the wrapping card, else the card.
classified(f, card) ==
    IF find_parent(f, card) # 0 THEN find_parent(f, card) ELSE card

\* '\U0001F525' in parent_text
GlyphAtStart(parent_text) == startswith(parent_text, <<FIRE>>)
has_glyph(parent_text) == Contains(parent_text, <<FIRE>>)

\* the alternatives of re.compile(r'popular|trending|fire|hot', re.I)
HotClassesWithoutHot == {<<"p", "o", "p", "u", "l", "a", "r">>, <<"t", "r", "e", "n", "d", "i", "n", "g">>, <<"f", "i", "r", "e">>}
HotClasses == {<<"p", "o", "p", "u", "l", "a", "r">>, <<"t", "r", "e", "n", "d", "i", "n", "g">>, <<"f", "i", "r", "e">>, <<"h", "o", "t">>}

\* parent.find(class_=re.compile(r'popular|trending|fire|hot', re.I))
popular_badge(f, parent) ==
    First({j \in Descendants(f, parent) : ClassSearchI(f[j], HotClasses)})

\* parent.find_all(class_=re.compile(r'badge', re.I)), and the test made on each
badges(f, parent) == {j \in Descendants(f, parent) : ClassSearchI(f[j], {<<"b", "a", "d", "g", "e">>})}

badge_says_hot(f, badge) ==
    \/ Contains(lower(get_text(f, badge)), <<"p", "o", "p", "u", "l", "a", "r">>)
    \/ Contains(lower(get_text(f, badge)), <<"h", "o", "t">>)

\* has_fire at line 76, for the card at node `card` of fragment f
has_fire(f, card) ==
    LET parent == classified(f, card)
    IN  \/ has_glyph(get_text(f, parent))
        \/ popular_badge(f, parent) # 0
        \/ \E b \in badges(f, parent) : badge_says_hot(f, b)

\* ----------------------------------------- extract_deal_info (lines 96-180)
ORIGIN == <<"h", "t", "t", "p", "s", ":", "/", "/", "s", "l", "i", "c", "k", "d", "e", "a", "l", "s", ".", "n", "e", "t">>

\* lines 108-112: the title element, 0 for None
title_elem(f, c) ==
    LET D == Descendants(f, c)
        byName  == First({j \in D : ClassIs(f[j], <<"d", "e", "a", "l", "C", "a", "r", "d", "_", "_", "t", "i", "t", "l", "e">>)})
        byHint  == First({j \in D : f[j].tag = "a" /\ ClassSearchI(f[j], {<<"t", "i", "t", "l", "e">>})})
        heading == First({j \in D : f[j].tag \in {"h2", "h3", "h4"}})
    IN  IF byName # 0 THEN byName ELSE IF byHint # 0 THEN byHint ELSE heading

\* lines 116-117: the anchor the title and address are read from, 0 when the
\* title element is read itself and has no address
link_elem(f, t) ==
    IF f[t].tag # "a" THEN First({j \in Descendants(f, t) : f[j].tag = "a"}) ELSE t

\* lines 119, 122, 125
title_of(f, c) ==
    LET t == title_elem(f, c)
    IN  IF t = 0 THEN <<>>
        ELSE IF link_elem(f, t) # 0 THEN get_text_strip(f, link_elem(f, t))
        ELSE get_text_strip(f, t)

\* lines 120, 123, 126
href_of(f, c) ==
    LET t == title_elem(f, c)
    IN  IF t = 0 \/ link_elem(f, t) = 0 THEN <<>> ELSE f[link_elem(f, t)].href

\* lines 128-129
link_url(href) ==
    IF href # <<>> /\ ~startswith(href, <<"h", "t", "t", "p">>) THEN ORIGIN \o href ELSE href

\* lines 133-144: the image element, 0 for None
img_elem(f, c) ==
    LET D == Descendants(f, c)
        byName == First({j \in D : ClassIs(f[j], <<"d", "e", "a", "l", "C", "a", "r", "d", "_", "_", "i", "m", "a", "g", "e">>)})
        img_container == First({j \in D : ClassIs(f[j], <<"d", "e", "a", "l", "C", "a", "r", "d", "_", "_", "i", "m", "a", "g", "e", "C", "o", "n", "t", "a", "i", "n", "e", "r">>)})
        inContainer ==
            IF img_container = 0 THEN 0
            ELSE First({j \in Descendants(f, img_container) : f[j].tag = "img"})
        anyImg == First({j \in D : f[j].tag = "img" /\ ~ClassSearch(f[j], {<<"a", "v", "a", "t", "a", "r">>})})
    IN  IF byName # 0 THEN byName ELSE IF inContainer # 0 THEN inContainer ELSE anyImg

\* lines 148-153
img_src(node) ==
    IF node.src # <<>> THEN node.src
    ELSE IF node.data_src # <<>> THEN node.data_src
    ELSE IF node.data_lazy_src # <<>> THEN node.data_lazy_src
    ELSE node.data_original

\* lines 155-156
image_url(src) ==
    IF ~startswith(src, <<"h", "t", "t", "p">>) THEN ORIGIN \o src ELSE src

\* lines 146-159
image_of(f, c) ==
    LET e == img_elem(f, c)
    IN  IF e = 0 \/ img_src(f[e]) = <<>> THEN <<>>
        ELSE LET url == image_url(img_src(f[e]))
             IN  IF \E x \in {<<"p", "l", "a", "c", "e", "h", "o", "l", "d", "e", "r">>, <<"i", "c", "o", "n">>, <<"a", "v", "a", "t", "a", "r">>, <<"l", "o", "g", "o">>} :
                        Contains(lower(url), x)
                 THEN <<>> ELSE url

\* line 162
price_elem(f, c) ==
    First({j \in Descendants(f, c) : ClassSearchI(f[j], {<<"d", "e", "a", "l", "C", "a", "r", "d", "_", "_", "p", "r", "i", "c", "e">>, <<"p", "r", "i", "c", "e">>})})

\* lines 163-168
PriceFromCardText(f, c) ==
    IF price_elem(f, c) = 0 THEN price_search(get_text(f, c))
    ELSE price_search(get_text_strip(f, price_elem(f, c)))
price_of(f, c) ==
    IF price_elem(f, c) = 0 THEN <<>>
    ELSE price_search(get_text_strip(f, price_elem(f, c)))

\* lines 171-173
store_of(f, c) ==
    LET e == First({j \in Descendants(f, c) :
                      ClassSearchI(f[j], {<<"d", "e", "a", "l", "C", "a", "r", "d", "_", "_", "s", "t", "o", "r", "e">>, <<"s", "t", "o", "r", "e">>, <<"m", "e", "r", "c", "h", "a", "n", "t">>})})
    IN  IF e = 0 THEN <<>> ELSE get_text_strip(f, e)

\* lines 176-178
votes_of(f, c) ==
    LET e == First({j \in Descendants(f, c) :
                      ClassSearchI(f[j], {<<"d", "e", "a", "l", "C", "a", "r", "d", "_", "_", "v", "o", "t", "e">>, <<"v", "o", "t", "e">>, <<"s", "c", "o", "r", "e">>, <<"t", "h", "u", "m", "b">>})})
    IN  IF e = 0 THEN <<>> ELSE get_text_strip(f, e)

extract_deal_info(f, container) ==
    [title |-> title_of(f, container),
     price |-> price_of(f, container),
     store |-> store_of(f, container),
     link  |-> link_url(href_of(f, container)),
     votes |-> votes_of(f, container),
     image |-> image_of(f, container)]

\* ------------------------------------------------ pages the site may serve
\* Card markup in the shapes the program distinguishes.
\* wrapped card, fire glyph in a flag outside the content block, two prices
GlyphCard ==
    << El("div", <<<<"d", "e", "a", "l", "C", "a", "r", "d">>>>, <<>>, 0),
       El("span", <<<<"d", "e", "a", "l", "C", "a", "r", "d", "_", "_", "f", "l", "a", "g">>>>, <<FIRE, " ", "P", "o", "p", "u", "l", "a", "r">>, 1),
       El("div", <<<<"d", "e", "a", "l", "C", "a", "r", "d", "_", "_", "c", "o", "n", "t", "e", "n", "t">>>>, <<>>, 1),
       Anchor(<<<<"d", "e", "a", "l", "C", "a", "r", "d", "_", "_", "t", "i", "t", "l", "e">>>>, <<"W", "i", "d", "g", "e", "t">>, <<"/", "f", "/", "1">>, 3),
       El("span", <<<<"d", "e", "a", "l", "C", "a", "r", "d", "_", "_", "p", "r", "i", "c", "e">>>>, <<"$", "1", "9", ".", "9", "9", " ", "$", "2", "9", ".", "9", "9">>, 3),
       El("span", <<<<"d", "e", "a", "l", "C", "a", "r", "d", "_", "_", "s", "t", "o", "r", "e", "N", "a", "m", "e">>>>, <<" ", "A", "m", "a", "z", "o", "n", " ">>, 3),
       El("span", <<<<"v", "o", "t", "e", "C", "o", "u", "n", "t">>>>, <<"+", "4", "2">>, 3) >>

\* wrapped card with no hotness signal at all
PlainCard ==
    << El("div", <<<<"d", "e", "a", "l", "C", "a", "r", "d">>>>, <<>>, 0),
       El("div", <<<<"d", "e", "a", "l", "C", "a", "r", "d", "_", "_", "c", "o", "n", "t", "e", "n", "t">>>>, <<>>, 1),
       El("h3", <<>>, <<>>, 2),
       Anchor(<<>>, <<"W", "i", "d", "g", "e", "t">>, <<"h", "t", "t", "p", "s", ":", "/", "/", "s", "l", "i", "c", "k", "d", "e", "a", "l", "s", ".", "n", "e", "t", "/", "f", "/", "2">>, 3),
       El("span", <<<<"p", "r", "i", "c", "e">>>>, <<"$", "3">>, 2) >>

\* wrapped card whose only signal is a descendant with class "flameIcon"
FlameCard ==
    << El("div", <<<<"d", "e", "a", "l", "C", "a", "r", "d">>>>, <<>>, 0),
       El("span", <<<<"f", "l", "a", "m", "e", "I", "c", "o", "n">>>>, <<>>, 1),
       El("div", <<<<"d", "e", "a", "l", "C", "a", "r", "d", "_", "_", "c", "o", "n", "t", "e", "n", "t">>>>, <<>>, 1),
       Anchor(<<<<"d", "e", "a", "l", "C", "a", "r", "d", "_", "_", "t", "i", "t", "l", "e">>>>, <<"G", "a", "d", "g", "e", "t">>, <<"/", "f", "/", "3">>, 3) >>

\* bare content block, class "HotTag" inside, title in a heading's anchor,
\* same title as GlyphCard with another link and price
HotClassCard ==
    << El("div", <<<<"d", "e", "a", "l", "C", "a", "r", "d", "_", "_", "c", "o", "n", "t", "e", "n", "t">>>>, <<>>, 0),
       El("span", <<<<"l", "a", "b", "e", "l">>, <<"H", "o", "t", "T", "a", "g">>>>, <<>>, 1),
       El("h2", <<>>, <<"D", "e", "a", "l", ":", " ">>, 1),
       Anchor(<<>>, <<" ", "W", "i", "d", "g", "e", "t", " ">>, <<"/", "f", "/", "4">>, 3),
       El("div", <<<<"P", "r", "i", "c", "e">>>>, <<"n", "o", "w", " ", "$", "1", ",", "2", "9", "9", ".", " ", "w", "a", "s", " ", "$", "1", ",", "5", "0", "0">>, 1),
       Img(<<<<"d", "e", "a", "l", "C", "a", "r", "d", "_", "_", "i", "m", "a", "g", "e">>>>, <<>>, <<"/", "i", "/", "4", ".", "p", "n", "g">>, 1) >>

\* wrapped card with a badge reading "Popular", title anchor with blank text
BlankTitleCard ==
    << El("div", <<<<"d", "e", "a", "l", "C", "a", "r", "d">>>>, <<>>, 0),
       El("div", <<<<"B", "a", "d", "g", "e">>>>, <<"P", "o", "p", "u", "l", "a", "r">>, 1),
       El("div", <<<<"d", "e", "a", "l", "C", "a", "r", "d", "_", "_", "c", "o", "n", "t", "e", "n", "t">>>>, <<>>, 1),
       Anchor(<<<<"d", "e", "a", "l", "C", "a", "r", "d", "_", "_", "t", "i", "t", "l", "e">>>>, <<" ", "\n">>, <<"/", "f", "/", "5">>, 3) >>

\* bare content block with the glyph in its own text and no title element
NoTitleCard ==
    << El("div", <<<<"d", "e", "a", "l", "C", "a", "r", "d", "_", "_", "c", "o", "n", "t", "e", "n", "t">>>>, <<FIRE, " ", "$", "7", " ", "o", "f", "f">>, 0),
       El("span", <<<<"m", "e", "r", "c", "h", "a", "n", "t">>>>, <<"T", "a", "r", "g", "e", "t">>, 1) >>

\* bare content block, glyph in its text, title in a heading without anchor,
\* no price element although the text holds a price
NoPriceElemCard ==
    << El("div", <<<<"d", "e", "a", "l", "C", "a", "r", "d", "_", "_", "c", "o", "n", "t", "e", "n", "t">>>>, <<"h", "o", "t", " ", FIRE>>, 0),
       El("h4", <<>>, <<" ", "L", "a", "m", "p", " ", "$", "1", "2", ".", "5", "0", " ">>, 1),
       Img(<<<<"a", "v", "a", "t", "a", "r">>>>, <<"/", "u", "/", "a", ".", "p", "n", "g">>, <<>>, 1),
       Img(<<>>, <<"/", "/", "c", "d", "n", ".", "e", "x", "a", "m", "p", "l", "e", ".", "c", "o", "m", "/", "l", "a", "m", "p", ".", "j", "p", "g">>, <<>>, 1) >>

\* wrapped card, class "Trending", a relative address that begins with "http"
HttpishCard ==
    << El("div", <<<<"d", "e", "a", "l", "C", "a", "r", "d">>>>, <<>>, 0),
       El("i", <<<<"i", "s", "T", "r", "e", "n", "d", "i", "n", "g">>>>, <<>>, 1),
       El("div", <<<<"d", "e", "a", "l", "C", "a", "r", "d", "_", "_", "c", "o", "n", "t", "e", "n", "t">>>>, <<>>, 1),
       Anchor(<<<<"i", "t", "e", "m", "T", "i", "t", "l", "e">>>>, <<"G", "a", "d", "g", "e", "t">>, <<"h", "t", "t", "p", "-", "d", "e", "a", "l", "s", "/", "8">>, 3),
       El("div", <<<<"d", "e", "a", "l", "C", "a", "r", "d", "_", "_", "i", "m", "a", "g", "e", "C", "o", "n", "t", "a", "i", "n", "e", "r">>>>, <<>>, 3),
       Img(<<>>, <<"h", "t", "t", "p", "i", "m", "g", "/", "8", ".", "p", "n", "g">>, <<>>, 5),
       El("span", <<<<"p", "r", "i", "c", "e">>>>, <<"f", "r", "e", "e">>, 3) >>

\* a grid row: a wrapped card with no signal, then one wrapper with the glyph
\* around two content blocks
RowOfCards ==
    << El("div", <<<<"f", "r", "o", "n", "t", "p", "a", "g", "e", "G", "r", "i", "d">>>>, <<>>, 0),
       El("div", <<<<"d", "e", "a", "l", "C", "a", "r", "d">>>>, <<>>, 1),
       El("div", <<<<"d", "e", "a", "l", "C", "a", "r", "d", "_", "_", "c", "o", "n", "t", "e", "n", "t">>>>, <<>>, 2),
       Anchor(<<<<"d", "e", "a", "l", "C", "a", "r", "d", "_", "_", "t", "i", "t", "l", "e">>>>, <<"M", "u", "g">>, <<"/", "f", "/", "8">>, 3),
       El("div", <<<<"d", "e", "a", "l", "C", "a", "r", "d">>>>, <<FIRE>>, 1),
       El("div", <<<<"d", "e", "a", "l", "C", "a", "r", "d", "_", "_", "c", "o", "n", "t", "e", "n", "t">>>>, <<>>, 5),
       Anchor(<<<<"d", "e", "a", "l", "C", "a", "r", "d", "_", "_", "t", "i", "t", "l", "e">>>>, <<"L", "a", "m", "p">>, <<"/", "f", "/", "9">>, 6),
       El("div", <<<<"d", "e", "a", "l", "C", "a", "r", "d", "_", "_", "c", "o", "n", "t", "e", "n", "t">>>>, <<>>, 5),
       Anchor(<<<<"d", "e", "a", "l", "C", "a", "r", "d", "_", "_", "t", "i", "t", "l", "e">>>>, <<"W", "i", "d", "g", "e", "t">>, <<"/", "f", "/", "1", "0">>, 8),
       El("span", <<<<"d", "e", "a", "l", "C", "a", "r", "d", "_", "_", "p", "r", "i", "c", "e">>>>, <<"$", ",">>, 8) >>

\* wrapped card, badge reading "HOT deal", title differing only in case
LowerCaseCard ==
    << El("div", <<<<"d", "e", "a", "l", "C", "a", "r", "d">>>>, <<>>, 0),
       El("div", <<<<"b", "a", "d", "g", "e">>>>, <<"H", "O", "T", " ", "d", "e", "a", "l">>, 1),
       El("div", <<<<"d", "e", "a", "l", "C", "a", "r", "d", "_", "_", "c", "o", "n", "t", "e", "n", "t">>>>, <<>>, 1),
       Anchor(<<<<"d", "e", "a", "l", "C", "a", "r", "d", "_", "_", "t", "i", "t", "l", "e">>>>, <<"w", "i", "d", "g", "e", "t">>, <<>>, 3),
       Img(<<>>, <<"h", "t", "t", "p", "s", ":", "/", "/", "s", "t", "a", "t", "i", "c", ".", "s", "l", "i", "c", "k", "d", "e", "a", "l", "s", ".", "n", "e", "t", "/", "l", "o", "g", "o", ".", "p", "n", "g">>, <<>>, 3) >>

Fragments ==
    << GlyphCard, PlainCard, FlameCard, HotClassCard, BlankTitleCard,
       NoTitleCard, NoPriceElemCard, HttpishCard, RowOfCards, LowerCaseCard >>

RECURSIVE SeqsUpTo(_, _)
SeqsUpTo(S, n) ==
    IF n = 0 THEN {<<>>}
    ELSE LET shorter == SeqsUpTo(S, n - 1)
         IN  shorter \cup {Append(s, x) : s \in shorter, x \in S}

\* A page: the fragments under <body>, by their index in Fragments.
Pages == SeqsUpTo(DOMAIN Fragments, MaxCards)

\* BeautifulSoup(response.text, 'html.parser') (line 47)
BeautifulSoup(page) == [p \in 1..Len(page) |-> Fragments[page[p]]]

\* soup.find_all(class_='dealCard__content') (line 51): the content blocks
\* in document order, each as <<fragment, node>>
RECURSIVE ContentBlocks(_, _, _)
ContentBlocks(doc, p, n) ==
    IF p > Len(doc) THEN <<>>
    ELSE IF n > Len(doc[p]) THEN ContentBlocks(doc, p + 1, 1)
    ELSE (IF ClassIs(doc[p][n], <<"d", "e", "a", "l", "C", "a", "r", "d", "_", "_", "c", "o", "n", "t", "e", "n", "t">>) THEN << <<p, n>> >> ELSE <<>>)
         \o ContentBlocks(doc, p, n + 1)

find_all_cards(doc) == ContentBlocks(doc, 1, 1)

\* ---------------------------------------------------------------- digest
NO_DEALS == "No hot deals found today. Check back tomorrow!"

\* create_email_text (lines 272-298): the body as its sequence of lines
RECURSIVE TextItems(_, _)
TextItems(ds, n) ==
    IF n > Len(ds) THEN <<>>
    ELSE << [line |-> "item", n |-> n, value |-> ds[n].title] >>
         \o (IF ds[n].price # <<>> THEN << [line |-> "Price", n |-> n, value |-> ds[n].price] >> ELSE <<>>)
         \o (IF ds[n].store # <<>> THEN << [line |-> "Store", n |-> n, value |-> ds[n].store] >> ELSE <<>>)
         \o (IF ds[n].link # <<>> THEN << [line |-> "Link", n |-> n, value |-> ds[n].link] >> ELSE <<>>)
         \o TextItems(ds, n + 1)

create_email_text(ds) ==
    << [line |-> "heading"], [line |-> "rule"] >>
    \o (IF ds = <<>> THEN << [line |-> NO_DEALS] >>
        ELSE << [line |-> "count", n |-> Len(ds), plural |-> Len(ds) # 1] >>
             \o TextItems(ds, 1))
    \o << [line |-> "rule"], [line |-> "visit"] >>

\* create_email_html (lines 187-269): the body as its sequence of blocks
create_email_html(ds) ==
    << [block |-> "head"] >>
    \o (IF ds = <<>> THEN << [block |-> NO_DEALS] >>
        ELSE << [block |-> "count", n |-> Len(ds), plural |-> Len(ds) # 1] >>
             \o [n \in 1..Len(ds) |-> [block |-> "deal", deal |-> ds[n]]])
    \o << [block |-> "footer"] >>

\* ------------------------------------------------------------ exceptions
\* The base class of each exception class the run can meet.
BaseClass ==
    [c \in {"HTTPError", "ConnectionError", "Timeout", "RequestException",
            "SMTPAuthenticationError", "SMTPException", "OSError", "Exception"} |->
        CASE c \in {"HTTPError", "ConnectionError", "Timeout"} -> "RequestException"
          [] c = "RequestException" -> "OSError"
          [] c = "SMTPAuthenticationError" -> "SMTPException"
          [] c = "SMTPException" -> "OSError"
          [] c = "OSError" -> "Exception"
          [] c = "Exception" -> "BaseException"]

RECURSIVE isinstance(_, _)
isinstance(exc, class) ==
    \/ exc = class
    \/ exc \in DOMAIN BaseClass /\ isinstance(BaseClass[exc], class)

\* what requests.get / raise_for_status can raise (line 41-42)
FetchErrors == {"ConnectionError", "Timeout", "HTTPError"}
\* what an SMTP session step can raise (lines 322-325)
SmtpErrors == {"SMTPAuthenticationError", "SMTPException", "OSError"}

\* line 43: except requests.RequestException
CatchesHTTPErrorOnly(exc) == isinstance(exc, "HTTPError")
fetch_except(exc) == isinstance(exc, "RequestException")

\* lines 328 and 331: except smtplib.SMTPAuthenticationError / except Exception
CatchesSMTPExceptionOnly(exc) == isinstance(exc, "SMTPException")
send_except(exc) ==
    isinstance(exc, "SMTPAuthenticationError") \/ isinstance(exc, "Exception")

\* ------------------------------------------------------------------ state
VARIABLES
    pc,               \* where the run is
    site,             \* the page the site would serve now
    SENDER_EMAIL, SENDER_PASSWORD, RECIPIENT_EMAIL,   \* lines 24-26
    fetches,          \* HTTP GETs issued
    response,         \* the page fetched, empty before
    cursor,           \* index into deal_cards of the card scanned next
    hot_deals,        \* line 48
    seen_titles, unique_deals, next_deal,             \* lines 84-89
    deals,            \* main's deals (line 342)
    msg,              \* the message composed by send_email, NoMessage before
    smtp,             \* the calls made on SMTP sessions, in order
    sent,             \* send_email's return value: "None" before, then "True" or "False"
    raised,           \* the exception that escaped main, "None" if none
    stdout,           \* what was printed, by kind
    markup,           \* a fragment handed to extract_deal_info on its own
    draft             \* the record extract_deal_info returned for it

vars == << pc, site, SENDER_EMAIL, SENDER_PASSWORD, RECIPIENT_EMAIL, fetches,
           response, cursor, hot_deals, seen_titles, unique_deals, next_deal,
           deals, msg, smtp, sent, raised, stdout, markup, draft >>

env == << site, SENDER_EMAIL, SENDER_PASSWORD, RECIPIENT_EMAIL, markup, draft >>
scan == << response, cursor, hot_deals >>
dedup == << seen_titles, unique_deals, next_deal >>
mail == << msg, smtp, sent >>

Secrets == {"", "set"}

\* no message composed yet
NoMessage == [From |-> "", To |-> "", plain |-> <<>>, html |-> <<>>]

\* lines 98-105: the record before any field is found
NoDeal == [title |-> <<>>, price |-> <<>>, store |-> <<>>, link |-> <<>>,
           votes |-> <<>>, image |-> <<>>]

Init ==
    /\ pc = "main"
    /\ site \in Pages
    /\ SENDER_EMAIL \in Secrets
    /\ SENDER_PASSWORD \in Secrets
    /\ RECIPIENT_EMAIL \in Secrets
    /\ fetches = 0
    /\ response = <<>>
    /\ cursor = 0
    /\ hot_deals = <<>>
    /\ seen_titles = {}
    /\ unique_deals = <<>>
    /\ next_deal = 0
    /\ deals = <<>>
    /\ msg = NoMessage
    /\ smtp = <<>>
    /\ sent = "None"
    /\ raised = "None"
    /\ stdout = <<>>
    /\ markup = <<>>
    /\ draft = NoDeal

soup == BeautifulSoup(response)
deal_cards == find_all_cards(soup)

\* ---------------------------------------------- get_hot_deals (lines 32-93)
\* lines 40-48, fetch succeeded
FetchOk ==
    /\ pc = "main"
    /\ pc' = "scan"
    /\ fetches' = fetches + 1
    /\ response' = site
    /\ cursor' = 1
    /\ hot_deals' = <<>>
    /\ stdout' = Append(stdout, "fetching")
    /\ UNCHANGED << env, dedup, deals, mail, raised >>

\* main's tail after get_hot_deals returned ds (lines 344-353)
Returned(ds, out) ==
    /\ deals' = ds
    /\ stdout' = out \o << "found" >> \o (IF ds # <<>> THEN << "list" >> ELSE <<>>)
                     \o << "sending" >>
    /\ pc' = "send_email"

\* lines 40-45, fetch raised
FetchRaises ==
    /\ pc = "main"
    /\ fetches' = fetches + 1
    /\ \E exc \in FetchErrors :
          IF fetch_except(exc)
          THEN /\ Returned(<<>>, stdout \o << "fetching", "fetch_error" >>)
               /\ raised' = raised
          ELSE /\ raised' = exc
               /\ pc' = "done"
               /\ stdout' = Append(stdout, "fetching")
               /\ deals' = deals
    /\ UNCHANGED << env, scan, dedup, mail >>

\* line 80
KeepsAnyDraft(deal) == TRUE
keep(deal) == deal.title # <<>>

\* line 81
Prepend(list, deal) == << deal >> \o list
append(list, deal) == Append(list, deal)

\* lines 59-79 for the content block at node `card` of fragment f: whether it
\* is classified hot, and the record extract_deal_info builds from it
scan_card(f, card) ==
    [has_fire |-> has_fire(f, card), deal |-> extract_deal_info(f, card)]

\* scan_card for every content block of every fragment a page is made of.
\* Both results depend on the fragment alone, so they are worked out once.
ContentNodes(f) == {n \in DOMAIN f : ClassIs(f[n], <<"d", "e", "a", "l", "C", "a", "r", "d", "_", "_", "c", "o", "n", "t", "e", "n", "t">>)}
Scanned ==
    [id \in DOMAIN Fragments |->
        [n \in ContentNodes(Fragments[id]) |-> scan_card(Fragments[id], n)]]

\* lines 53-81: one pass of the loop body
ScanCard ==
    /\ pc = "scan"
    /\ cursor <= Len(deal_cards)
    /\ LET found == Scanned[response[deal_cards[cursor][1]]][deal_cards[cursor][2]]
       IN  hot_deals' = IF found.has_fire /\ keep(found.deal)
                        THEN append(hot_deals, found.deal) ELSE hot_deals
    /\ cursor' = cursor + 1
    /\ UNCHANGED << pc, env, fetches, response, dedup, deals, mail, raised, stdout >>

\* lines 84-85: the loop is over
ScanDone ==
    /\ pc = "scan"
    /\ cursor > Len(deal_cards)
    /\ pc' = "dedup"
    /\ seen_titles' = {}
    /\ unique_deals' = <<>>
    /\ next_deal' = 1
    /\ UNCHANGED << env, fetches, scan, deals, mail, raised, stdout >>

\* line 87
SeenNever(title, seen) == FALSE
seen_before(title, seen) == title \in seen

\* lines 86-89: one pass of the loop body
DedupStep ==
    /\ pc = "dedup"
    /\ next_deal <= Len(hot_deals)
    /\ LET deal == hot_deals[next_deal]
       IN  IF ~seen_before(deal.title, seen_titles)
           THEN /\ seen_titles' = seen_titles \cup {deal.title}
                /\ unique_deals' = Append(unique_deals, deal)
           ELSE UNCHANGED << seen_titles, unique_deals >>
    /\ next_deal' = next_deal + 1
    /\ UNCHANGED << pc, env, fetches, scan, deals, mail, raised, stdout >>

\* lines 91-93, then main's lines 344-353
Return ==
    /\ pc = "dedup"
    /\ next_deal > Len(hot_deals)
    /\ Returned(unique_deals, Append(stdout, "debug"))
    /\ UNCHANGED << env, fetches, scan, dedup, mail, raised >>

\* ------------------------------------------------- send_email (lines 301-333)
SMTP_PORT == 587

\* line 304
AllCredentialsMissing ==
    SENDER_EMAIL = "" /\ SENDER_PASSWORD = "" /\ RECIPIENT_EMAIL = ""
credentials_missing ==
    SENDER_EMAIL = "" \/ SENDER_PASSWORD = "" \/ RECIPIENT_EMAIL = ""

\* lines 304-307
SendSkipped ==
    /\ pc = "send_email"
    /\ credentials_missing
    /\ stdout' = Append(stdout, "no_credentials")
    /\ sent' = "False"
    /\ pc' = "done"
    /\ UNCHANGED << env, fetches, scan, dedup, deals, msg, smtp, raised >>

\* lines 309-319
Compose ==
    /\ pc = "send_email"
    /\ ~credentials_missing
    /\ msg' = [From |-> SENDER_EMAIL, To |-> RECIPIENT_EMAIL,
               plain |-> create_email_text(deals),
               html |-> create_email_html(deals)]
    /\ pc' = "connect"
    /\ UNCHANGED << env, fetches, scan, dedup, deals, smtp, sent, raised, stdout >>

\* lines 328-333: an exception raised inside the try block
Handle(exc) ==
    IF send_except(exc)
    THEN /\ sent' = "False"
         /\ stdout' = Append(stdout, IF isinstance(exc, "SMTPAuthenticationError")
                                     THEN "auth_failed" ELSE "send_failed")
         /\ raised' = raised
    ELSE /\ raised' = exc
         /\ UNCHANGED << sent, stdout >>

\* One call on the session at `at`: it returns, or raises one of `errors`.
SessionCall(at, call, then, errors) ==
    /\ pc = at
    /\ smtp' = Append(smtp, call)
    /\ \/ /\ pc' = then
          /\ UNCHANGED << sent, stdout, raised >>
       \/ /\ \E exc \in errors : Handle(exc)
          /\ pc' = "done"
    /\ UNCHANGED << env, fetches, scan, dedup, deals, msg >>

\* line 322: smtplib.SMTP(SMTP_SERVER, SMTP_PORT)
Connect == SessionCall("connect", [call |-> "connect", port |-> SMTP_PORT], "starttls",
                       {"SMTPException", "OSError"})
\* line 323
StartTLS == SessionCall("starttls", [call |-> "starttls"], "login",
                        {"SMTPException", "OSError"})
\* line 324
Login == SessionCall("login", [call |-> "login", user |-> SENDER_EMAIL], "send_message",
                     SmtpErrors)
\* line 325
SendMessage == SessionCall("send_message", [call |-> "send_message", msg |-> msg], "quit",
                           {"SMTPException", "OSError"})

\* lines 322 (leaving the with block) and 326-327
Quit ==
    /\ pc = "quit"
    /\ smtp' = Append(smtp, [call |-> "quit"])
    /\ pc' = "done"
    /\ \/ /\ sent' = "True"
          /\ stdout' = Append(stdout, "sent")
          /\ raised' = raised
       \/ Handle("SMTPException")
    /\ UNCHANGED << env, fetches, scan, dedup, deals, msg >>

\* ------------------------------------------------------------------- main
Next ==
    \/ FetchOk
    \/ FetchRaises
    \/ ScanCard
    \/ ScanDone
    \/ DedupStep
    \/ Return
    \/ SendSkipped
    \/ Compose
    \/ Connect
    \/ StartTLS
    \/ Login
    \/ SendMessage
    \/ Quit

Spec == Init /\ [][Next]_vars

\* The run is one sequential process: a step that can be taken is taken.
FairSpec == Spec /\ WF_vars(Next)

\* --------------------------------- extract_deal_info on a fragment of its own
\* Markup for one content block, in the shapes extract_deal_info tells apart.
TitleShapes == {"anchor", "heading", "text", "none"}
Hrefs == {<<>>, <<"/", "f", "/", "1", "2", "3", "-", "d", "e", "a", "l">>, <<"f", "/", "1">>, <<"h", "t", "t", "p", ":", "/", "/", "a", ".", "c", "o", "/", "x">>,
          <<"h", "t", "t", "p", "s", ":", "/", "/", "s", "l", "i", "c", "k", "d", "e", "a", "l", "s", ".", "n", "e", "t", "/", "f", "/", "1">>, <<"h", "t", "t", "p", "b", "i", "n", "/", "x">>, <<"/", "/", "c", "d", "n", ".", "c", "o", "/", "x">>}
PriceClasses == {<<>>, <<"d", "e", "a", "l", "C", "a", "r", "d", "_", "_", "p", "r", "i", "c", "e">>, <<"s", "a", "l", "e", "P", "r", "i", "c", "e">>}
PriceTexts == {<<>>, <<"$", "1", "9", ".", "9", "9", " ", "$", "2", "9", ".", "9", "9">>, <<" ", "n", "o", "w", " ", "$", "1", ",", "2", "9", "9", ".", "9", "9", "!", " ">>, <<"$">>, <<"$", ".", "9", "9">>, <<"$", "5", ".">>,
               <<"U", "S", "D", " ", "5">>, <<"$", ",">>, <<"w", "a", "s", " ", "$", "2", "0", " ", "n", "o", "w", " ", "$", "1", "0", ".", "5", "0">>, <<"$", "1", ".", "2", ".", "3">>}
OwnTexts == {<<>>, <<"f", "r", "o", "m", " ", "$", "4", ".", "0", "0", " ">>, <<FIRE>>}
ImgSrcs == {<<>>, <<"/", "i", "/", "1", ".", "p", "n", "g">>, <<"h", "t", "t", "p", "s", ":", "/", "/", "c", "d", "n", ".", "c", "o", "/", "i", "c", "o", "n", ".", "p", "n", "g">>, <<"h", "t", "t", "p", "i", "m", "g", ".", "p", "n", "g">>}

Container(shape, href, pclass, ptext, own, src) ==
    << El("div", <<<<"d", "e", "a", "l", "C", "a", "r", "d", "_", "_", "c", "o", "n", "t", "e", "n", "t">>>>, own, 0) >>
    \o (CASE shape = "anchor" -> << Anchor(<<<<"d", "e", "a", "l", "C", "a", "r", "d", "_", "_", "t", "i", "t", "l", "e">>>>, <<"W", "i", "d", "g", "e", "t">>, href, 1) >>
          [] shape = "heading" -> << El("h3", <<>>, <<>>, 1), Anchor(<<>>, <<"W", "i", "d", "g", "e", "t">>, href, 2) >>
          [] shape = "text" -> << El("h2", <<>>, <<"W", "i", "d", "g", "e", "t">>, 1) >>
          [] shape = "none" -> <<>>)
    \o (IF pclass = <<>> THEN <<>> ELSE << El("span", <<pclass>>, ptext, 1) >>)
    \o (IF src = <<>> THEN <<>> ELSE << Img(<<>>, src, <<>>, 1) >>)

ExtractInit ==
    /\ pc = "extract"
    /\ \E shape \in TitleShapes, href \in Hrefs, pclass \in PriceClasses,
          ptext \in PriceTexts, own \in OwnTexts, src \in ImgSrcs :
            markup = Container(shape, href, pclass, ptext, own, src)
    /\ draft = NoDeal
    /\ site = <<>>
    /\ SENDER_EMAIL = ""
    /\ SENDER_PASSWORD = ""
    /\ RECIPIENT_EMAIL = ""
    /\ fetches = 0
    /\ response = <<>>
    /\ cursor = 0
    /\ hot_deals = <<>>
    /\ seen_titles = {}
    /\ unique_deals = <<>>
    /\ next_deal = 0
    /\ deals = <<>>
    /\ msg = NoMessage
    /\ smtp = <<>>
    /\ sent = "None"
    /\ raised = "None"
    /\ stdout = <<>>

\* deal = extract_deal_info(card) (line 79), the content block being node 1
Extract ==
    /\ pc = "extract"
    /\ draft' = extract_deal_info(markup, 1)
    /\ pc' = "extracted"
    /\ UNCHANGED << site, SENDER_EMAIL, SENDER_PASSWORD, RECIPIENT_EMAIL, fetches, scan,
                    dedup, deals, mail, raised, stdout, markup >>

ExtractNext == Extract

ExtractSpec == ExtractInit /\ [][ExtractNext]_vars

\* ================================================================ properties
Printed(kind) == \E n \in DOMAIN stdout : stdout[n] = kind

\* get_hot_deals has just returned to main: deals holds the list it returned.
JustReturned == pc = "send_email"
\* ... and it returned from line 93, after scanning the page it fetched.
ScannedPage == JustReturned /\ Printed("debug")

\* The k-th candidate card of the fetched page, and the record built from it.
Frag(k) == soup[deal_cards[k][1]]
Node(k) == deal_cards[k][2]
Record(k) == Scanned[response[deal_cards[k][1]]][Node(k)].deal
Hot(k) == Scanned[response[deal_cards[k][1]]][Node(k)].has_fire

\* The cards classified hot whose record has a title.
HotTitled == {k \in DOMAIN deal_cards : Hot(k) /\ Record(k).title # <<>>}

RECURSIVE RecordsInOrder(_)
RecordsInOrder(K) ==
    IF K = {} THEN <<>> ELSE << Record(Min(K)) >> \o RecordsInOrder(K \ {Min(K)})

\* C1: the list returned by get_hot_deals holds no two records with the same
\* title (compared exactly), and the record kept for a title is the one built
\* from the earliest-scanned hot card with that title.
C1_UniqueTitlesFirstKept ==
    ScannedPage =>
        /\ \A a, b \in DOMAIN deals : a # b => deals[a].title # deals[b].title
        /\ \A a \in DOMAIN deals :
              LET same == {k \in HotTitled : Record(k).title = deals[a].title}
              IN  same # {} /\ deals[a] = Record(Min(same))

\* Two hot cards repeat a title with different price and link, and the list
\* was returned.
C1_Witness ==
    /\ ScannedPage
    /\ \E j, k \in HotTitled :
          j < k /\ Record(j).title = Record(k).title /\ Record(j) # Record(k)

\* C2: every record returned by get_hot_deals has a non-empty title; a hot
\* card whose draft has an empty title is never emitted.
C2_TitlesNonEmpty ==
    JustReturned => \A a \in DOMAIN deals : deals[a].title # <<>>

\* The page held a hot card whose title anchor is blank, and one with no title
\* element, and the list was returned.
C2_Witness ==
    /\ ScannedPage
    /\ \E j, k \in DOMAIN deal_cards :
          /\ Hot(j) /\ title_elem(Frag(j), Node(j)) = 0
          /\ Hot(k) /\ title_elem(Frag(k), Node(k)) # 0
          /\ Record(k).title = <<>>

\* C3: the list returned is exactly the hot cards with non-empty titles, in
\* the order the cards occur in the page, without the later cards whose title
\* already occurred.
C3_ScanOrder ==
    ScannedPage =>
        deals = RecordsInOrder({k \in HotTitled :
                    \A j \in HotTitled : j < k => Record(j).title # Record(k).title})

\* A page with a card that is not hot, a repeated title, and two records kept.
C3_Witness ==
    /\ ScannedPage
    /\ Len(deals) >= 2
    /\ Cardinality(HotTitled) > Len(deals)
    /\ \E k \in DOMAIN deal_cards : ~Hot(k)

\* The text of the fragment card k is classified on holds the fire glyph.
GlyphInText(k) ==
    \E n \in DOMAIN Frag(k) :
        /\ n = classified(Frag(k), Node(k)) \/ IsUnder(Frag(k), n, classified(Frag(k), Node(k)))
        /\ \E c \in DOMAIN Frag(k)[n].text : Frag(k)[n].text[c] = FIRE

\* A record for card k is in the returned list.
Emitted(k) == \E a \in DOMAIN deals : deals[a] = Record(k)

\* No card scanned before k and classified hot carries k's title.
NoEarlierTitle(k) ==
    \A j \in DOMAIN deal_cards :
        j < k /\ Hot(j) => Record(j).title # Record(k).title

\* C4: a card with the fire glyph anywhere in the text of the fragment it is
\* classified on (the wrapping card when there is one, else the content block)
\* is emitted whenever its title is non-empty and no earlier title equals it.
C4_GlyphIsHot ==
    ScannedPage =>
        \A k \in DOMAIN deal_cards :
            GlyphInText(k) /\ Record(k).title # <<>> /\ NoEarlierTitle(k) => Emitted(k)

\* A card whose only signal is the glyph, in the middle of its text, was emitted.
C4_Witness ==
    /\ ScannedPage
    /\ \E k \in DOMAIN deal_cards :
          /\ GlyphInText(k)
          /\ ~startswith(get_text(Frag(k), classified(Frag(k), Node(k))), <<FIRE>>)
          /\ popular_badge(Frag(k), classified(Frag(k), Node(k))) = 0
          /\ badges(Frag(k), classified(Frag(k), Node(k))) = {}
          /\ Emitted(k)

\* Card k has, below the fragment it is classified on, an element one of whose
\* class tokens contains one of the words, letter case ignored.
ClassSignal(k, words) ==
    \E n \in Descendants(Frag(k), classified(Frag(k), Node(k))) :
        \E t \in DOMAIN Frag(k)[n].class : \E w \in words :
            Contains(lower(Frag(k)[n].class[t]), w)

\* C9 as claimed: a class matching any of popular, trending, fire, hot, flame
\* makes the card hot, so its titled record is emitted.
C9_FiveKeywords ==
    ScannedPage =>
        \A k \in DOMAIN deal_cards :
            /\ ClassSignal(k, {<<"p", "o", "p", "u", "l", "a", "r">>, <<"t", "r", "e", "n", "d", "i", "n", "g">>, <<"f", "i", "r", "e">>, <<"h", "o", "t">>, <<"f", "l", "a", "m", "e">>})
            /\ Record(k).title # <<>>
            /\ NoEarlierTitle(k)
            => Emitted(k)

\* C9 as amended: a class matching any of popular, trending, fire, hot makes
\* the card hot, so its titled record is emitted; "flame" is no keyword.
C9_FourKeywords ==
    ScannedPage =>
        \A k \in DOMAIN deal_cards :
            /\ ClassSignal(k, {<<"p", "o", "p", "u", "l", "a", "r">>, <<"t", "r", "e", "n", "d", "i", "n", "g">>, <<"f", "i", "r", "e">>, <<"h", "o", "t">>})
            /\ Record(k).title # <<>>
            /\ NoEarlierTitle(k)
            => Emitted(k)

\* A card whose only signal is a class containing "hot" in another letter
\* case was emitted, and a card whose only signal is "flame" was not.
C9_Witness ==
    /\ ScannedPage
    /\ \E k \in DOMAIN deal_cards :
          /\ ClassSignal(k, {<<"h", "o", "t">>}) /\ ~GlyphInText(k)
          /\ badges(Frag(k), classified(Frag(k), Node(k))) = {}
          /\ Emitted(k)
    /\ \E k \in DOMAIN deal_cards :
          /\ ClassSignal(k, {<<"f", "l", "a", "m", "e">>}) /\ Record(k).title # <<>>
          /\ ~Emitted(k)

\* The SMTP sessions opened so far.
Sessions == Cardinality({n \in DOMAIN smtp : smtp[n].call = "connect"})

AllSet == SENDER_EMAIL # "" /\ SENDER_PASSWORD # "" /\ RECIPIENT_EMAIL # ""

\* The one GET of the run was issued and did not yield a page.
FetchFailed == fetches = 1 /\ pc \notin {"scan", "dedup"} /\ ~Printed("debug")

\* Both bodies of the composed message carry the no-deals text and no record.
NoDealsDigest ==
    /\ \E n \in DOMAIN msg.plain : msg.plain[n].line = NO_DEALS
    /\ \A n \in DOMAIN msg.plain : msg.plain[n].line \notin {"item", "count"}
    /\ \E n \in DOMAIN msg.html : msg.html[n].block = NO_DEALS
    /\ \A n \in DOMAIN msg.html : msg.html[n].block \notin {"deal", "count"}

\* C5: when the fetch fails, get_hot_deals returns the empty list without
\* raising and the run goes on to delivery with zero deals: with all three
\* credentials set, one mail session is attempted, whose text and HTML bodies
\* both carry the no-deals message and no record block.
C5_FetchErrorGivesEmptyDigest ==
    FetchFailed =>
        /\ raised = "None"
        /\ Printed("fetch_error")
        /\ deals = <<>>
        /\ AllSet /\ pc # "send_email" =>
              /\ NoDealsDigest
              /\ Sessions <= 1
              /\ pc # "connect" => Sessions = 1
              /\ \A n \in DOMAIN smtp : smtp[n].call = "send_message" => smtp[n].msg = msg

\* A run whose fetch failed went through a whole mail session.
C5_Witness ==
    /\ FetchFailed
    /\ pc = "done"
    /\ AllSet
    /\ \E n \in DOMAIN smtp : smtp[n].call = "send_message"
    /\ sent = "True"

\* C6: with any of the three credentials empty, send_email returns False
\* without a single call on an SMTP session, whatever the deals are; a session
\* is opened only with all three set, and at most once per run.
C6_NoSessionWithoutCredentials ==
    /\ ~AllSet => smtp = <<>> /\ msg = NoMessage
    /\ ~AllSet /\ pc = "done" => sent = "False"
    /\ Sessions <= 1

\* send_email returned False with deals to send and exactly one credential
\* missing.
C6_Witness ==
    /\ pc = "done"
    /\ SENDER_EMAIL # "" /\ SENDER_PASSWORD = "" /\ RECIPIENT_EMAIL # ""
    /\ Len(deals) > 0
    /\ sent = "False"
    /\ Printed("no_credentials")

\* C7: every run of main reaches its end with no exception escaping, whatever
\* the fetch, the credentials and the SMTP session do, and the fetch is made
\* exactly once.
C7_RunCompletes ==
    /\ [](raised = "None" /\ fetches <= 1)
    /\ <>[](pc = "done" /\ raised = "None" /\ fetches = 1)

\* A run ended after a delivery exception other than an authentication failure.
C7_Witness ==
    /\ pc = "done"
    /\ raised = "None"
    /\ Printed("send_failed")
    /\ sent = "False"

\* An address with scheme and host.
IsAbsolute(url) ==
    \E scheme \in {<<"h", "t", "t", "p", ":", "/", "/">>, <<"h", "t", "t", "p", "s", ":", "/", "/">>} :
        /\ startswith(url, scheme)
        /\ Len(url) > Len(scheme)
        /\ url[Len(scheme) + 1] \notin {"/", "?", "#", ":"}

\* C8: in every record returned by get_hot_deals, link and image are each
\* empty or an absolute URL with scheme and host.
C8_AddressesAbsolute ==
    JustReturned =>
        \A a \in DOMAIN deals :
            /\ deals[a].link = <<>> \/ IsAbsolute(deals[a].link)
            /\ deals[a].image = <<>> \/ IsAbsolute(deals[a].image)

\* t is "$", then one or more digits or commas, then an optional ".", then
\* digits.
IsCurrency(t) ==
    /\ Len(t) >= 2
    /\ t[1] = "$"
    /\ \E a \in 2..Len(t) :
          /\ \A n \in 2..a : IsDigit(t[n]) \/ t[n] = ","
          /\ \/ \A n \in (a + 1)..Len(t) : IsDigit(t[n])
             \/ /\ a + 1 <= Len(t)
                /\ t[a + 1] = "."
                /\ \A n \in (a + 2)..Len(t) : IsDigit(t[n])

\* The first currency-formatted substring of s: the leftmost, and the longest
\* from there; <<>> when there is none.
FirstCurrency(s) ==
    LET found == {w \in (1..Len(s)) \X (1..Len(s)) : w[1] <= w[2] /\ IsCurrency(SubSeq(s, w[1], w[2]))}
    IN  IF found = {} THEN <<>>
        ELSE LET i == Min({w[1] : w \in found})
                 j == Max({w[2] : w \in {v \in found : v[1] = i}})
             IN  SubSeq(s, i, j)

\* The first element below the content block with a class token containing
\* "price", letter case ignored; 0 when there is none.
PriceHinted ==
    LET hinted == {n \in 2..Len(markup) :
                     \E t \in DOMAIN markup[n].class :
                         Contains(lower(markup[n].class[t]), <<"p", "r", "i", "c", "e">>)}
    IN  IF hinted = {} THEN 0 ELSE Min(hinted)

\* The whole text of the content block.
CardText == get_text(markup, 1)

\* C10 as claimed: the price is the first currency-formatted substring of the
\* text of the element whose class hints "price", and without such an element
\* the first currency-formatted substring of the card's entire text.
C10_PriceWithFallback ==
    pc = "extracted" =>
        draft.price = IF PriceHinted # 0 THEN FirstCurrency(strip(markup[PriceHinted].text))
                      ELSE FirstCurrency(CardText)

\* C10 as amended: the price is the first currency-formatted substring of the
\* text of the element whose class hints "price"; without such an element the
\* price is empty, whatever the card's text holds.
C10_PriceFromHintedElementOnly ==
    pc = "extracted" =>
        draft.price = IF PriceHinted # 0 THEN FirstCurrency(strip(markup[PriceHinted].text))
                      ELSE <<>>

\* A card with a price in its text and no price element got an empty price.
C10_Witness ==
    /\ pc = "extracted"
    /\ PriceHinted = 0
    /\ FirstCurrency(CardText) # <<>>
    /\ draft.price = <<>>
====
